---------------------------- MODULE Spec2Model ----------------------------
(***************************************************************************)
(* A model of src/scraper.py: the Earth911 extraction pipeline.            *)
(*                                                                         *)
(* Texts.  A Python str is modelled as a sequence of lexemes.  A lexeme is *)
(* a TLA+ string standing for the characters it spells: the punctuation    *)
(* characters { } [ ] , : " and the whitespace characters " " and "\n"     *)
(* are lexemes of one character; a word ("name", "Note:", a code fence)    *)
(* is a lexeme of several characters none of which is punctuation, a       *)
(* quote or whitespace.  The regular expressions and the JSON grammar of   *)
(* the source are applied to lexemes by character class; no literal of a   *)
(* pattern ("name", "Note:", the two code fences) is spelt by two lexemes  *)
(* of the input alphabets used below.                                      *)
(*                                                                         *)
(* Values.  A Python value is a record [t, v]: t is the Python type name   *)
(* ("str", "list", "dict", "int", "NoneType") and v the payload: a text    *)
(* for a str, a sequence of values for a list, a function from key texts   *)
(* to values for a dict.                                                   *)
(***************************************************************************)
EXTENDS Integers, Sequences, FiniteSets, TLC

VARIABLES
    raw_facilities,      \* main: the pages scrape_earth911 returned
    replies,             \* what chain.invoke will do for each page, in order
    idx,                 \* main: number of pages the loop has finished
    structured_entries,  \* main: the results appended so far
    pc,                  \* control position, in main and classify_with_ollama
    raw_response,        \* classify_with_ollama: local (Unbound until assigned)
    cleaned,             \* classify_with_ollama: local
    parsed,              \* classify_with_ollama: local
    exc,                 \* classify_with_ollama: the exception raised in the try block
    saved,               \* main: what json.dump wrote (Unbound until written)
    unit                 \* a direct call of validate_structure or clean_json_string

vars == <<raw_facilities, replies, idx, structured_entries, pc,
          raw_response, cleaned, parsed, exc, saved, unit>>

-----------------------------------------------------------------------------
(* Lexemes and character classes *)

LB == "{"
RB == "}"
LK == "["
RK == "]"
CM == ","
CL == ":"
QT == "\""
SP == " "
NL == "\n"
\* A TLA+ string cannot hold a backquote: in these two lexemes the
\* character ' stands for the backquote of the source (lines 196-197).
FenceJson == "'''json"
Fence == "'''"

\* Python's \s and str.strip(): whitespace characters
IsSpace(c) == c \in {SP, NL}

\* line 108: the alternatives of the group (Note:|Explanation:|Output:)
Markers == {"Note:", "Explanation:", "Output:"}

\* the lexemes json.loads reads as digits of a number, and as the literal null
NumberLexemes == {"1", "2"}
NullLexeme == "null"

\* a local variable no assignment has reached
Unbound == [t |-> "unbound", v |-> <<>>]
IsUnbound(x) == x.t = "unbound"

\* Python values
PyStr(s) == [t |-> "str", v |-> s]
PyList(xs) == [t |-> "list", v |-> xs]
PyDict(f) == [t |-> "dict", v |-> f]
PyInt(n) == [t |-> "int", v |-> n]
PyNone == [t |-> "NoneType", v |-> <<>>]

\* a str of one word
Word(w) == <<w>>

EmptyDict == [k \in {} |-> PyNone]

\* d[k] = x on a dict payload
DictSet(f, k, x) == [j \in DOMAIN f \cup {k} |-> IF j = k THEN x ELSE f[j]]

-----------------------------------------------------------------------------
(* str helpers *)

\* index of the first lexeme of s at or after i that is not whitespace
\* (Len(s) + 1 when there is none)
RECURSIVE SkipSpace(_, _)
SkipSpace(s, i) ==
    IF i > Len(s) THEN Len(s) + 1
    ELSE IF IsSpace(s[i]) THEN SkipSpace(s, i + 1)
    ELSE i

\* index of the last lexeme of s at or before i that is not whitespace (0 when none)
RECURSIVE SkipSpaceBack(_, _)
SkipSpaceBack(s, i) ==
    IF i < 1 THEN 0
    ELSE IF IsSpace(s[i]) THEN SkipSpaceBack(s, i - 1)
    ELSE i

\* str.strip()
Strip(s) ==
    LET a == SkipSpace(s, 1)
        b == SkipSpaceBack(s, Len(s))
    IN IF a > b THEN <<>> ELSE SubSeq(s, a, b)

Least(S) == CHOOSE i \in S : \A j \in S : i <= j
Greatest(S) == CHOOSE i \in S : \A j \in S : j <= i

\* index of the first occurrence of lexeme c in s at or after i (0 when none)
IndexFrom(s, c, i) ==
    LET at == {j \in i..Len(s) : s[j] = c}
    IN IF at = {} THEN 0 ELSE Least(at)

\* index of the last occurrence of lexeme c in s at or before i (0 when none)
LastIndexFrom(s, c, i) ==
    LET at == {j \in 1..i : s[j] = c}
    IN IF at = {} THEN 0 ELSE Greatest(at)

\* c in s
Contains(s, c) == \E j \in 1..Len(s) : s[j] = c

\* s without the lexemes at the indices in dropped
Without(s, dropped) ==
    LET kept == SelectSeq([i \in 1..Len(s) |-> i], LAMBDA i : i \notin dropped)
    IN IF kept = <<>> THEN <<>> ELSE [k \in 1..Len(kept) |-> s[kept[k]]]

\* s.startswith(c)
StartsWith(s, c) == Len(s) >= 1 /\ s[1] = c

-----------------------------------------------------------------------------
(* clean_json_string, lines 98-115 *)

\* the pattern \n\s*(Note:|Explanation:|Output:) matches at i
MarkerAt(s, i) ==
    /\ i <= Len(s)
    /\ s[i] = NL
    /\ LET j == SkipSpace(s, i + 1)
       IN j <= Len(s) /\ s[j] \in Markers

\* start of the leftmost match of the marker pattern (0 when none)
FirstMarker(s) ==
    LET at == {i \in 1..Len(s) : MarkerAt(s, i)}
    IN IF at = {} THEN 0 ELSE Least(at)

\* line 108: re.split(marker pattern, json_str)[0].strip()
Truncate(s) ==
    LET m == FirstMarker(s)
    IN Strip(IF m = 0 THEN s ELSE SubSeq(s, 1, m - 1))

\* the pattern ,(\s*[}\]]) matches at i
TrailingCommaAt(s, i) ==
    /\ s[i] = CM
    /\ LET j == SkipSpace(s, i + 1)
       IN j <= Len(s) /\ s[j] \in {RB, RK}

\* line 109: re.sub(r',(\s*[}\]])', r'\1', json_str).  A match holds one
\* comma, at its start, and whitespace and a bracket after it, so no two
\* matches overlap: the left-to-right scan finds every comma at which the
\* pattern matches, and the replacement drops that comma alone.
RemoveTrailingCommas(s) == Without(s, {i \in 1..Len(s) : TrailingCommaAt(s, i)})

\* The pattern {\s*"name"\s*:\s*"([^"]+)"\s*} tried at i: [end |-> index of
\* the closing brace (0 when there is no match), from, to |-> group 1].  The
\* quantifiers have one way to match: \s* stops at a lexeme that is not
\* whitespace, [^"]+ at the next quote.
NameMatchAt(s, i) ==
    LET n == Len(s)
        fail == [end |-> 0, from |-> 0, to |-> 0]
        a == SkipSpace(s, i + 1)              \* opening quote of "name"
        b == SkipSpace(s, a + 3)              \* the colon
        c == SkipSpace(s, b + 1)              \* opening quote of the value
        d == IndexFrom(s, QT, c + 1)          \* closing quote of the value
        e == SkipSpace(s, d + 1)              \* the closing brace
    IN IF ~(i <= n /\ s[i] = LB) THEN fail
       ELSE IF ~(a + 2 <= n /\ s[a] = QT /\ s[a + 1] = "name" /\ s[a + 2] = QT) THEN fail
       ELSE IF ~(b <= n /\ s[b] = CL) THEN fail
       ELSE IF ~(c <= n /\ s[c] = QT) THEN fail
       ELSE IF ~(d > c + 1) THEN fail
       ELSE IF ~(e <= n /\ s[e] = RB) THEN fail
       ELSE [end |-> e, from |-> c + 1, to |-> d - 1]

\* line 110: re.sub(name pattern, r'"\1"', json_str).  A brace inside a
\* match is in group 1, where no quote follows it before the match ends, so
\* no match starts inside another: the left-to-right scan finds every index
\* at which the pattern matches.  The replacement "\1" is the part of the
\* match from the quote before group 1 to the quote after it: the lexemes
\* of the match before and after that part are dropped.
CollapseName(s) ==
    LET starts == {i \in 1..Len(s) : NameMatchAt(s, i).end # 0}
        dropped == UNION { (i..(NameMatchAt(s, i).from - 2))
                           \cup ((NameMatchAt(s, i).to + 2)..NameMatchAt(s, i).end) :
                           i \in starts }
    IN Without(s, dropped)

\* lines 112-113
Wrap(s) ==
    IF StartsWith(s, LB) /\ ~StartsWith(Strip(s), LK)
    THEN <<LK>> \o s \o <<RK>>
    ELSE s

\* clean_json_string with lines 109 and 110 exchanged: the shorthand is
\* collapsed before the trailing commas are removed
CleanCollapseFirst(json_str) ==
    Strip(Wrap(RemoveTrailingCommas(CollapseName(Truncate(json_str)))))

clean_json_string(json_str) ==
    Strip(Wrap(CollapseName(RemoveTrailingCommas(Truncate(json_str)))))

-----------------------------------------------------------------------------
(* json.loads, as called on line 200.  An exception is [type, msg]; the     *)
(* message of a JSONDecodeError is its leading phrase, without the position *)
(* the library appends to it.                                               *)

NoException == [type |-> "none", msg |-> <<>>]
Exception(type, msg) == [type |-> type, msg |-> Word(msg)]

\* str(e)
ExcStr(e) == e.msg

Parsed(val, next) == [ok |-> TRUE, val |-> val, next |-> next, msg |-> ""]
ParseFail(msg) == [ok |-> FALSE, val |-> PyNone, next |-> 0, msg |-> msg]

\* index of the first quote or control character of s at or after i (0 when none)
RECURSIVE StringEnd(_, _)
StringEnd(s, i) ==
    IF i > Len(s) THEN 0
    ELSE IF s[i] \in {QT, NL} THEN i
    ELSE StringEnd(s, i + 1)

\* a string literal whose opening quote is at i - 1
ScanString(s, i) ==
    LET k == StringEnd(s, i)
    IN IF k = 0 THEN ParseFail("Unterminated string starting at")
       ELSE IF s[k] = NL THEN ParseFail("Invalid control character at")
       ELSE Parsed(PyStr(SubSeq(s, i, k - 1)), k + 1)

\* index after the run of digits that starts at i
RECURSIVE DigitsEnd(_, _)
DigitsEnd(s, i) ==
    IF i <= Len(s) /\ s[i] \in NumberLexemes THEN DigitsEnd(s, i + 1) ELSE i

RECURSIVE ParseValue(_, _)
RECURSIVE ParseItems(_, _, _)
RECURSIVE ParsePairs(_, _, _)

\* the items of an array, the first at j, after the items acc
ParseItems(s, j, acc) ==
    LET n == Len(s)
        r == ParseValue(s, j)
        k == SkipSpace(s, r.next)
    IN IF ~r.ok THEN r
       ELSE IF k <= n /\ s[k] = RK THEN Parsed(PyList(Append(acc, r.val)), k + 1)
       ELSE IF k <= n /\ s[k] = CM THEN ParseItems(s, SkipSpace(s, k + 1), Append(acc, r.val))
       ELSE ParseFail("Expecting ',' delimiter")

\* the pairs of an object, the opening quote of the first key at j, after the pairs acc
ParsePairs(s, j, acc) ==
    LET n == Len(s)
        key == ScanString(s, j + 1)
        c == SkipSpace(s, key.next)
        r == ParseValue(s, SkipSpace(s, c + 1))
        k == SkipSpace(s, r.next)
        q == SkipSpace(s, k + 1)
        pairs == DictSet(acc, key.val.v, r.val)
    IN IF ~key.ok THEN key
       ELSE IF ~(c <= n /\ s[c] = CL) THEN ParseFail("Expecting ':' delimiter")
       ELSE IF ~r.ok THEN r
       ELSE IF k <= n /\ s[k] = RB THEN Parsed(PyDict(pairs), k + 1)
       ELSE IF ~(k <= n /\ s[k] = CM) THEN ParseFail("Expecting ',' delimiter")
       ELSE IF ~(q <= n /\ s[q] = QT)
            THEN ParseFail("Expecting property name enclosed in double quotes")
       ELSE ParsePairs(s, q, pairs)

\* the value whose first lexeme is at i
ParseValue(s, i) ==
    LET n == Len(s)
        j == SkipSpace(s, i + 1)
    IN IF i > n THEN ParseFail("Expecting value")
       ELSE IF s[i] = QT THEN ScanString(s, i + 1)
       ELSE IF s[i] = LK
            THEN IF j <= n /\ s[j] = RK THEN Parsed(PyList(<<>>), j + 1)
                 ELSE ParseItems(s, j, <<>>)
       ELSE IF s[i] = LB
            THEN IF j <= n /\ s[j] = RB THEN Parsed(PyDict(EmptyDict), j + 1)
                 ELSE IF ~(j <= n /\ s[j] = QT)
                      THEN ParseFail("Expecting property name enclosed in double quotes")
                 ELSE ParsePairs(s, j, EmptyDict)
       ELSE IF s[i] = NullLexeme THEN Parsed(PyNone, i + 1)
       ELSE IF s[i] \in NumberLexemes
            THEN Parsed(PyInt(SubSeq(s, i, DigitsEnd(s, i) - 1)), DigitsEnd(s, i))
       ELSE ParseFail("Expecting value")

\* json.loads(s): [ok, val, msg]; not ok is a raised JSONDecodeError
json_loads(s) ==
    LET r == ParseValue(s, SkipSpace(s, 1))
        e == SkipSpace(s, r.next)
    IN IF ~r.ok THEN r
       ELSE IF e <= Len(s) THEN ParseFail("Extra data")
       ELSE r

-----------------------------------------------------------------------------
(* validate_structure, lines 134-156.  A message is a str given by its     *)
(* parts, the fixed part of the f-string first.                            *)

\* required_keys with the type of street_address taken from the line below it
RequiredKeysShifted == <<
    [key |-> "business_name", type |-> "str"],
    [key |-> "last_update_date", type |-> "str"],
    [key |-> "street_address", type |-> "list"],
    [key |-> "materials_category", type |-> "list"],
    [key |-> "materials_accepted", type |-> "list"] >>

\* lines 144-150: the keys in declaration order, each with its expected type
required_keys == <<
    [key |-> "business_name", type |-> "str"],
    [key |-> "last_update_date", type |-> "str"],
    [key |-> "street_address", type |-> "str"],
    [key |-> "materials_category", type |-> "list"],
    [key |-> "materials_accepted", type |-> "list"] >>

Verdict(valid, message) == [valid |-> valid, message |-> message]

\* lines 151-156: the loop, from its i-th iteration on
RECURSIVE ValidateFrom(_, _)
ValidateFrom(entry, i) ==
    IF i > Len(required_keys) THEN Verdict(TRUE, <<"Valid">>)
    ELSE LET key == required_keys[i].key
             expected_type == required_keys[i].type
         IN IF Word(key) \notin DOMAIN entry.v
            THEN Verdict(FALSE, <<"Missing key: ", key>>)
            ELSE IF entry.v[Word(key)].t # expected_type
            THEN Verdict(FALSE, <<"Wrong type for ", key, ": expected ", expected_type>>)
            ELSE ValidateFrom(entry, i + 1)

\* validate_structure looking for an absent key among all the keys before it
\* checks any type
ValidatePresenceFirst(entry) ==
    LET absent == {i \in 1..Len(required_keys) :
                       Word(required_keys[i].key) \notin DOMAIN entry.v}
        first == CHOOSE i \in absent : \A j \in absent : i <= j
    IN IF absent # {}
       THEN Verdict(FALSE, <<"Missing key: ", required_keys[first].key>>)
       ELSE ValidateFrom(entry, 1)

validate_structure(entry) == ValidateFrom(entry, 1)

-----------------------------------------------------------------------------
(* extract_materials_accepted, lines 159-178.  A page is the sequence of   *)
(* the table rows BeautifulSoup finds in it: row.table is the class of the *)
(* table the row is in, row.cls the class of its first td ("" when the row *)
(* has no td of class material-name) and row.text that cell's text.        *)

Row(table, cls, text) == [table |-> table, cls |-> cls, text |-> text]

\* lines 172-177: the loop over the selected rows, from row i on
RECURSIVE MaterialsFrom(_, _)
MaterialsFrom(html, i) ==
    IF i > Len(html) THEN <<>>
    ELSE LET row == html[i]
             material_name == Strip(row.text)
         IN IF /\ row.table = "materials-accepted"
               /\ row.cls = "material-name"
               /\ material_name # <<>>
            THEN <<PyStr(material_name)>> \o MaterialsFrom(html, i + 1)
            ELSE MaterialsFrom(html, i + 1)

extract_materials_accepted(html) == PyList(MaterialsFrom(html, 1))

-----------------------------------------------------------------------------
(* classify_with_ollama, lines 181-215, and main, lines 218-239 *)

\* ExtractFence taking the text after the first json fence, not the last
ExtractFirstFence(s) ==
    IF Contains(s, FenceJson)
    THEN LET a == IndexFrom(s, FenceJson, 1)
             tail == SubSeq(s, a + 1, Len(s))
             b == IndexFrom(tail, Fence, 1)
         IN Strip(IF b = 0 THEN tail ELSE SubSeq(tail, 1, b - 1))
    ELSE s

\* lines 196-197: the text after the last json fence, up to the next fence
ExtractFence(s) ==
    IF Contains(s, FenceJson)
    THEN LET a == LastIndexFrom(s, FenceJson, Len(s))
             tail == SubSeq(s, a + 1, Len(s))
             b == IndexFrom(tail, Fence, 1)
         IN Strip(IF b = 0 THEN tail ELSE SubSeq(tail, 1, b - 1))
    ELSE s

\* line 206: the fixed search category
Category == PyList(<<PyStr(Word("Electronics"))>>)

\* Override keeping the materials_accepted the model proposed, when it proposed one
OverrideKeepsProposal(entry, html) ==
    PyDict(DictSet(IF Word("materials_accepted") \in DOMAIN entry.v THEN entry.v
                   ELSE DictSet(entry.v, Word("materials_accepted"),
                                extract_materials_accepted(html)),
                   Word("materials_category"), Category))

\* Override without line 206
OverrideAcceptedOnly(entry, html) ==
    PyDict(DictSet(entry.v, Word("materials_accepted"), extract_materials_accepted(html)))

\* lines 206-207 on a dict
Override(entry, html) ==
    PyDict(DictSet(DictSet(entry.v, Word("materials_category"), Category),
                   Word("materials_accepted"), extract_materials_accepted(html)))

\* the TypeError of line 206 when parsed is no dict
ItemAssignmentError(value) ==
    Exception("TypeError",
              IF value.t = "list" THEN "list indices must be integers or slices, not str"
              ELSE IF value.t = "str" THEN "'str' object does not support item assignment"
              ELSE IF value.t = "int" THEN "'int' object does not support item assignment"
              ELSE "'NoneType' object does not support item assignment")

\* line 211
ValidationFailure(message, entry) ==
    PyDict((Word("error") :> PyStr(<<"Validation error: ">> \o message))
           @@ (Word("raw_output") :> entry))

\* DecodeFailure reporting the text clean_json_string made of the response
DecodeFailureCleaned(e, response) ==
    PyDict((Word("error") :> PyStr(<<"JSON decode error: ">> \o ExcStr(e)))
           @@ (Word("raw_output") :> PyStr(clean_json_string(response))))

\* line 215
DecodeFailure(e, response) ==
    PyDict((Word("error") :> PyStr(<<"JSON decode error: ">> \o ExcStr(e)))
           @@ (Word("raw_output") :> PyStr(response)))

NoUnit == [fn |-> "none"]

\* the page the loop of main is at
raw_html == raw_facilities[idx + 1]

\* lines 232-234: classify_with_ollama returns value to main, which appends it
Return(value) ==
    /\ structured_entries' = Append(structured_entries, value)
    /\ idx' = idx + 1
    /\ pc' = "loop"

\* lines 230 and 232: the loop takes the next page and calls classify_with_ollama
Call ==
    /\ pc = "loop"
    /\ idx < Len(raw_facilities)
    /\ pc' = "invoke"
    /\ raw_response' = Unbound
    /\ cleaned' = Unbound
    /\ parsed' = Unbound
    /\ exc' = NoException
    /\ UNCHANGED <<raw_facilities, replies, idx, structured_entries, saved, unit>>

\* line 194: the model call returns a text or raises
Invoke ==
    /\ pc = "invoke"
    /\ LET reply == replies[idx + 1]
       IN IF reply.raises
          THEN /\ exc' = Exception("Exception", "model call failed")
               /\ pc' = "except"
               /\ UNCHANGED raw_response
          ELSE /\ raw_response' = PyStr(reply.text)
               /\ pc' = "fence"
               /\ UNCHANGED exc
    /\ UNCHANGED <<raw_facilities, replies, idx, structured_entries, cleaned, parsed,
                   saved, unit>>

\* lines 196-197
Fenced ==
    /\ pc = "fence"
    /\ raw_response' = PyStr(ExtractFence(raw_response.v))
    /\ pc' = "clean"
    /\ UNCHANGED <<raw_facilities, replies, idx, structured_entries, cleaned, parsed,
                   exc, saved, unit>>

\* line 199
Clean ==
    /\ pc = "clean"
    /\ cleaned' = PyStr(clean_json_string(raw_response.v))
    /\ pc' = "parse"
    /\ UNCHANGED <<raw_facilities, replies, idx, structured_entries, raw_response,
                   parsed, exc, saved, unit>>

\* line 200
Parse ==
    /\ pc = "parse"
    /\ LET r == json_loads(cleaned.v)
       IN IF r.ok
          THEN /\ parsed' = r.val
               /\ pc' = "first"
               /\ UNCHANGED exc
          ELSE /\ exc' = Exception("JSONDecodeError", r.msg)
               /\ pc' = "except"
               /\ UNCHANGED parsed
    /\ UNCHANGED <<raw_facilities, replies, idx, structured_entries, raw_response,
                   cleaned, saved, unit>>

\* lines 202-203
First ==
    /\ pc = "first"
    /\ IF parsed.t # "list"
       THEN /\ pc' = "override"
            /\ UNCHANGED <<parsed, exc>>
       ELSE IF parsed.v = <<>>
       THEN /\ exc' = Exception("IndexError", "list index out of range")
            /\ pc' = "except"
            /\ UNCHANGED parsed
       ELSE /\ parsed' = parsed.v[1]
            /\ pc' = "override"
            /\ UNCHANGED exc
    /\ UNCHANGED <<raw_facilities, replies, idx, structured_entries, raw_response,
                   cleaned, saved, unit>>

\* lines 206-207
Overwrite ==
    /\ pc = "override"
    /\ IF parsed.t = "dict"
       THEN /\ parsed' = Override(parsed, raw_html)
            /\ pc' = "validate"
            /\ UNCHANGED exc
       ELSE /\ exc' = ItemAssignmentError(parsed)
            /\ pc' = "except"
            /\ UNCHANGED parsed
    /\ UNCHANGED <<raw_facilities, replies, idx, structured_entries, raw_response,
                   cleaned, saved, unit>>

\* lines 209-212
Validate ==
    /\ pc = "validate"
    /\ LET verdict == validate_structure(parsed)
       IN IF ~verdict.valid
          THEN Return(ValidationFailure(verdict.message, parsed))
          ELSE Return(parsed)
    /\ UNCHANGED <<raw_facilities, replies, raw_response, cleaned, parsed, exc,
                   saved, unit>>

\* lines 214-215: the handler reads raw_response; when line 194 raised before
\* assigning it, the read raises UnboundLocalError, which nothing in main catches
Except ==
    /\ pc = "except"
    /\ IF IsUnbound(raw_response)
       THEN /\ exc' = Exception("UnboundLocalError",
                                "cannot access local variable 'raw_response'")
            /\ pc' = "crashed"
            /\ UNCHANGED <<idx, structured_entries>>
       ELSE /\ Return(DecodeFailure(exc, raw_response.v))
            /\ UNCHANGED exc
    /\ UNCHANGED <<raw_facilities, replies, raw_response, cleaned, parsed, saved, unit>>

\* lines 236-237: after the last page the results are written
Save ==
    /\ pc = "loop"
    /\ idx = Len(raw_facilities)
    /\ saved' = PyList(structured_entries)
    /\ pc' = "done"
    /\ UNCHANGED <<raw_facilities, replies, idx, structured_entries, raw_response,
                   cleaned, parsed, exc, unit>>

Next ==
    \/ Call
    \/ Invoke
    \/ Fenced
    \/ Clean
    \/ Parse
    \/ First
    \/ Overwrite
    \/ Validate
    \/ Except
    \/ Save

-----------------------------------------------------------------------------
(* The inputs: pages, and what the model call does *)

\* the most rows a page has
MaxRows == 2

\* line 52: links[:3]
MaxLinks == 3

RowKinds == {
    Row("materials-accepted", "material-name", <<"Glass">>),
    Row("materials-accepted", "material-name", <<SP, "Batteries", NL>>),
    Row("materials-accepted", "material-name", <<SP>>),
    Row("materials-accepted", "", <<"NoClass">>),
    Row("other", "material-name", <<"Paper">>) }

Pages == UNION {[1..n -> RowKinds] : n \in 0..MaxRows}

Raises == [raises |-> TRUE, text |-> <<>>]
Says(text) == [raises |-> FALSE, text |-> text]

Q(w) == <<QT, w, QT>>
Field(key, value) == Q(key) \o <<CL, SP>> \o value
List(value) == <<LK>> \o value \o <<RK>>

\* the texts of fs, each followed by a comma and a space
RECURSIVE Fields(_)
Fields(fs) == IF fs = <<>> THEN <<>> ELSE Head(fs) \o <<CM, SP>> \o Fields(Tail(fs))

\* an object of the fields fs; with trailing, a comma follows the last field
Object(fs, trailing) ==
    LET body == Fields(fs)
    IN <<LB>> \o (IF trailing \/ body = <<>> THEN Strip(body)
                  ELSE SubSeq(body, 1, Len(body) - 2)) \o <<RB>>

\* what the model may say about each field: nothing (<<>>), or a field
NameOptions == {<<>>, Field("business_name", Q("Acme")), Field("business_name", <<"1">>)}
DateOptions == {<<>>, Field("last_update_date", Q("2024"))}
AddressOptions == {<<>>, Field("street_address", Q("Main")), Field("street_address", <<"null">>)}
AcceptedOptions == {
    <<>>,
    Field("materials_accepted", List(Q("Y"))),
    Field("materials_accepted", List(Object(<<Field("name", Q("Copper"))>>, FALSE))),
    Field("materials_accepted", Q("Y")) }
ExtraOptions == {<<>>, Field("error", Q("none")) \o <<CM, SP>> \o Field("raw_output", Q("none"))}

\* the fields of fs that are there
Present(fs) == SelectSeq(fs, LAMBDA f : f # <<>>)

\* the objects the model may say: with a category
ObjectTexts ==
    { Object(Present(<<n, d, a, Field("materials_category", List(Q("X"))), m>>), FALSE) :
        n \in NameOptions, d \in DateOptions, a \in AddressOptions, m \in AcceptedOptions }

\* without a category, and with fields of a failure
SparseObjectTexts ==
    { Object(Present(<<n, Field("last_update_date", Q("2024")),
                       Field("street_address", Q("Main")), m, x>>), FALSE) :
        n \in NameOptions, m \in AcceptedOptions, x \in ExtraOptions }

\* with a comma after the last field
TrailingObjectTexts ==
    { Object(Present(<<n, Field("last_update_date", Q("2024")), a, m>>), TRUE) :
        n \in NameOptions, a \in AddressOptions, m \in AcceptedOptions }

ValidObject ==
    Object(<<Field("business_name", Q("Acme")), Field("last_update_date", Q("2024")),
             Field("street_address", Q("Main")), Field("materials_category", List(Q("X"))),
             Field("materials_accepted", List(Q("Y")))>>, FALSE)

OtherObject ==
    Object(<<Field("business_name", Q("Zed")), Field("last_update_date", Q("2020")),
             Field("street_address", Q("Side"))>>, FALSE)

\* a payload the repairs change and json.loads still rejects
BrokenObject == <<LB>> \o Q("business_name") \o <<SP>> \o Q("Acme") \o <<CM, RB>>

Prose == <<"Here", SP, "you", SP, "go">>

\* a payload as the model may dress it: fenced, with prose, with commentary
Dressed(body) == {
    body,
    <<SP, NL>> \o body \o <<NL>>,
    Prose \o <<NL, FenceJson, NL>> \o body \o <<NL, Fence, NL>> \o Prose,
    <<FenceJson>> \o body \o <<Fence>>,
    <<FenceJson, NL>> \o body,
    <<FenceJson>> \o List(OtherObject) \o <<Fence, NL>> \o Prose \o <<FenceJson>> \o body \o <<Fence>>,
    <<Fence, NL>> \o body \o <<NL, Fence>>,
    Prose \o <<NL, "Note:", SP>> \o Prose \o <<NL, FenceJson, NL>> \o body \o <<Fence>>,
    <<FenceJson>> \o body \o <<NL, NL, SP, "Explanation:", SP>> \o Prose \o <<Fence>>,
    body \o <<NL, "Note:", SP>> \o Prose,
    body \o <<SP, "Note:", SP>> \o Prose,
    <<"Output:", NL>> \o body,
    <<NL, "Output:", NL>> \o body }

\* payloads that are no object, or none json.loads accepts
OtherTexts == {
    <<>>,
    Prose,
    List(<<>>),
    Q("X"),
    <<"1", "2">>,
    <<"null">>,
    List(<<"null">>),
    List(Q("X")),
    List(List(ValidObject)),
    Object(<<Field("name", Q("Copper"))>>, FALSE),
    List(ValidObject) \o <<SP>> \o List(ValidObject),
    List(ValidObject \o <<CM, SP>> \o OtherObject),
    <<LB>> \o ValidObject,
    <<CM, SP, RB>> }

Replies ==
    {Raises}
    \cup {Says(List(o)) : o \in ObjectTexts \cup SparseObjectTexts}
    \cup {Says(o) : o \in TrailingObjectTexts}
    \cup {Says(t) : t \in Dressed(List(ValidObject)) \cup Dressed(List(OtherObject))
                         \cup Dressed(BrokenObject)}
    \cup {Says(t) : t \in OtherTexts}

\* the pages and the replies of a run over several pages
BatchPages == {<<>>, <<Row("materials-accepted", "material-name", <<"Glass">>)>>}
BatchReplies == {
    Raises,
    Says(<<FenceJson, NL>> \o List(ValidObject) \o <<NL, Fence>>),
    Says(OtherObject),
    Says(BrokenObject),
    Says(Prose) }

Idle ==
    /\ idx = 0
    /\ structured_entries = <<>>
    /\ raw_response = Unbound
    /\ cleaned = Unbound
    /\ parsed = Unbound
    /\ exc = NoException
    /\ saved = Unbound

\* main after scrape_earth911 returned one to MaxLinks pages
Init ==
    /\ \E n \in 1..MaxLinks :
        /\ raw_facilities \in [1..n -> BatchPages]
        /\ replies \in [1..n -> BatchReplies]
    /\ pc = "loop"
    /\ unit = NoUnit
    /\ Idle

Spec == Init /\ [][Next]_vars

\* main with one page, and any reply of the model
PageInit ==
    /\ \E page \in Pages, reply \in Replies :
        /\ raw_facilities = <<page>>
        /\ replies = <<reply>>
    /\ pc = "loop"
    /\ unit = NoUnit
    /\ Idle

PageSpec == PageInit /\ [][Next]_vars

-----------------------------------------------------------------------------
(* validate_structure called directly, on any mapping *)

\* the other pipeline variables while a function is called directly
NoRun ==
    /\ raw_facilities = <<>>
    /\ replies = <<>>
    /\ pc = "unit"
    /\ Idle

ValueKinds == {PyStr(Word("Acme")), PyList(<<PyStr(Word("X"))>>), PyInt(<<"1">>)}

KeyNames == {required_keys[i].key : i \in 1..Len(required_keys)} \cup {"error"}

\* the mappings from some of the keys to values of the kinds above
Entries ==
    UNION { {PyDict([k \in {Word(w) : w \in ks} |-> f[k[1]]]) : f \in [ks -> ValueKinds]} :
            ks \in SUBSET KeyNames }

\* unit.given keeps the mapping as it was handed to the first call
ValidateInit ==
    /\ \E entry \in Entries :
        unit = [fn |-> "validate_structure", entry |-> entry, given |-> entry,
                calls |-> 0, ret |-> Unbound, first |-> Unbound]
    /\ NoRun

\* validate_structure(entry): the entry is only read
CallValidate ==
    /\ unit.fn = "validate_structure"
    /\ unit.calls = 0
    /\ unit' = [unit EXCEPT !.calls = 1, !.ret = validate_structure(unit.entry)]
    /\ UNCHANGED <<raw_facilities, replies, idx, structured_entries, pc,
                   raw_response, cleaned, parsed, exc, saved>>

\* validate_structure(entry) once more, the first result kept aside
CallValidateAgain ==
    /\ unit.fn = "validate_structure"
    /\ unit.calls = 1
    /\ unit' = [unit EXCEPT !.calls = 2, !.first = unit.ret,
                            !.ret = validate_structure(unit.entry)]
    /\ UNCHANGED <<raw_facilities, replies, idx, structured_entries, pc,
                   raw_response, cleaned, parsed, exc, saved>>

ValidateNext == CallValidate \/ CallValidateAgain

ValidateSpec == ValidateInit /\ [][ValidateNext]_vars

-----------------------------------------------------------------------------
(* clean_json_string called directly, on any text of a few fragments *)

\* the most fragments a text is made of
MaxFrags == 4

Fragments == {
    <<LB>>, <<RB>>, <<LK>>, <<RK>>, <<CM>>, <<SP>>, <<NL, "Note:">>,
    Q("X"),
    <<LB>> \o Q("name") \o <<CL>> }

\* the examples of the documentation of the repairs
Examples == {
    <<LB>> \o Field("business_name", Q("X")) \o <<CM, RB>>,
    <<LB>> \o Field("name", Q("Copper")) \o <<RB>> }

RECURSIVE Concat(_)
Concat(ts) == IF ts = <<>> THEN <<>> ELSE Head(ts) \o Concat(Tail(ts))

Texts == {Concat(ts) : ts \in UNION {[1..n -> Fragments] : n \in 0..MaxFrags}} \cup Examples

CleanInit ==
    /\ \E json_str \in Texts :
        unit = [fn |-> "clean_json_string", json_str |-> json_str, calls |-> 0,
                ret |-> Unbound]
    /\ NoRun

\* clean_json_string(json_str)
CallClean ==
    /\ unit.fn = "clean_json_string"
    /\ unit.calls = 0
    /\ unit' = [unit EXCEPT !.calls = 1, !.ret = PyStr(clean_json_string(unit.json_str))]
    /\ UNCHANGED <<raw_facilities, replies, idx, structured_entries, pc,
                   raw_response, cleaned, parsed, exc, saved>>

CleanNext == CallClean

CleanSpec == CleanInit /\ [][CleanNext]_vars

-----------------------------------------------------------------------------
(* Properties of validate_structure *)

\* the field declaration order and the expected types, as the claims give them
FieldOrder == <<"business_name", "last_update_date", "street_address",
                "materials_category", "materials_accepted">>
TypeName(k) ==
    IF k \in {"business_name", "last_update_date", "street_address"} THEN "str" ELSE "list"

AbsentFields(entry) == {i \in 1..5 : Word(FieldOrder[i]) \notin DOMAIN entry.v}
MistypedFields(entry) ==
    {i \in 1..5 : /\ Word(FieldOrder[i]) \in DOMAIN entry.v
                  /\ entry.v[Word(FieldOrder[i])].t # TypeName(FieldOrder[i])}
MissingKey(i) == Verdict(FALSE, <<"Missing key: ", FieldOrder[i]>>)
WrongType(i) ==
    Verdict(FALSE, <<"Wrong type for ", FieldOrder[i], ": expected ", TypeName(FieldOrder[i])>>)

Validated == unit.fn = "validate_structure" /\ unit.calls >= 1

\* C4 as stated: for every mapping that lacks a required key, validate returns
\* (false, "Missing key: k") for the first absent key k in declaration order,
\* whatever the types of the values under the keys that are present.
C4_MissingKeyBeforeAnyType ==
    (Validated /\ AbsentFields(unit.entry) # {})
        => unit.ret = MissingKey(Least(AbsentFields(unit.entry)))

\* C4 amended: for every mapping that lacks a required key, validate returns
\* false, with "Missing key: k" for the first absent key k when no key declared
\* before k is present with a wrong type, and otherwise with the "Wrong type"
\* message of the first such mistyped key: each key is checked for presence and
\* then for type before the next key is looked at.
C4_FirstAbsentOrMistyped ==
    (Validated /\ AbsentFields(unit.entry) # {})
        => LET k == Least(AbsentFields(unit.entry))
               before == {i \in MistypedFields(unit.entry) : i < k}
           IN unit.ret = IF before = {} THEN MissingKey(k) ELSE WrongType(Least(before))

\* C4 witness: street_address is absent, business_name is present as a number,
\* and validate answered with the wrong type of business_name
C4_Witness ==
    /\ Validated
    /\ 3 \in AbsentFields(unit.entry)
    /\ 1 \in MistypedFields(unit.entry)
    /\ unit.ret = WrongType(1)

\* C5: for every mapping with all five keys, validate returns (true, "Valid")
\* exactly when the three string fields are strings and the two materials
\* fields are lists, and otherwise (false, "Wrong type for k: expected t") for
\* the first mistyped key k in declaration order; the mapping is as it was
\* given, and a second call returns what the first returned.
C5_ValidExactlyWhenTyped ==
    (Validated /\ AbsentFields(unit.entry) = {})
        => /\ unit.ret = IF MistypedFields(unit.entry) = {}
                         THEN Verdict(TRUE, <<"Valid">>)
                         ELSE WrongType(Least(MistypedFields(unit.entry)))
           /\ unit.entry = unit.given
           /\ unit.calls = 2 => unit.ret = unit.first

\* C5 witness: all five keys present, materials_accepted a string, validated twice
C5_Witness ==
    /\ unit.fn = "validate_structure"
    /\ unit.calls = 2
    /\ AbsentFields(unit.entry) = {}
    /\ MistypedFields(unit.entry) = {5}
    /\ unit.ret = Verdict(FALSE, <<"Wrong type for ", "materials_accepted", ": expected ", "list">>)

-----------------------------------------------------------------------------
(* Properties of clean_json_string *)

\* the text after the first three repairs, in the order of the claim
AfterThreeSteps(raw) == CollapseName(RemoveTrailingCommas(Truncate(raw)))

Cleaned == unit.fn = "clean_json_string" /\ unit.calls = 1

\* what the documentation says of its two examples
ExamplesCleaned ==
    /\ unit.json_str = <<LB>> \o Field("business_name", Q("X")) \o <<CM, RB>>
           => unit.ret.v = <<LK, LB>> \o Field("business_name", Q("X")) \o <<RB, RK>>
    /\ unit.json_str = <<LB>> \o Field("name", Q("Copper")) \o <<RB>>
           => unit.ret.v = Q("Copper")

\* C9 as stated: the repairs are applied in the order truncate, remove trailing
\* commas, collapse the name shorthand, wrap; when the text after the first
\* three starts with { the result is that text between [ and ], otherwise the
\* result is that text unchanged; the result never starts with {.
C9_WrappedOrUnchanged ==
    Cleaned =>
        LET t == AfterThreeSteps(unit.json_str)
        IN /\ unit.ret.v = IF StartsWith(t, LB) THEN <<LK>> \o t \o <<RK>> ELSE t
           /\ ~StartsWith(unit.ret.v, LB)
           /\ ExamplesCleaned

\* C9 amended: as stated, except that a text that does not start with { comes
\* back with the whitespace at its ends stripped (line 115), which changes it
\* when removing a leading comma left whitespace at its start.
C9_WrappedOrStripped ==
    Cleaned =>
        LET t == AfterThreeSteps(unit.json_str)
        IN /\ unit.ret.v = IF StartsWith(t, LB) THEN <<LK>> \o t \o <<RK>> ELSE Strip(t)
           /\ ~StartsWith(unit.ret.v, LB)
           /\ ExamplesCleaned

\* C9 witness: a shorthand object with a trailing comma was cleaned; the comma
\* went first, so the shorthand collapsed and nothing was wrapped
C9_Witness ==
    /\ Cleaned
    /\ unit.json_str = <<LB>> \o Q("name") \o <<CL>> \o Q("X") \o <<CM, RB>>
    /\ unit.ret.v = Q("X")

-----------------------------------------------------------------------------
(* Properties of classify_with_ollama and main.  The result of page i is   *)
(* structured_entries[i]; it is stated in terms of the page and of what    *)
(* the model said for it.                                                  *)

\* the content of the last block fenced as JSON of s, up to the next fence or
\* the end of s, stripped; s itself when it has no JSON fence
FenceContent(s) ==
    LET openers == {i \in 1..Len(s) : s[i] = FenceJson}
        a == Greatest(openers)
        closers == {j \in (a + 1)..Len(s) : s[j] = Fence}
        b == IF closers = {} THEN Len(s) + 1 ELSE Least(closers)
    IN IF openers = {} THEN s ELSE Strip(SubSeq(s, a + 1, b - 1))

\* the sanitized model output, and what it parses to
Sanitized(text) == clean_json_string(FenceContent(text))
ParsedOutput(text) == json_loads(Sanitized(text))

\* the parsed output r has a candidate record: its first element when it is
\* a list, else itself
HasCandidate(r) == r.ok /\ (r.val.t = "list" => r.val.v # <<>>)
Candidate(r) == IF r.val.t = "list" THEN r.val.v[1] ELSE r.val
HasMapping(r) == HasCandidate(r) /\ Candidate(r).t = "dict"

\* the non-empty texts of the material-name cells of the page, in page order
ExpectedMaterials(html) ==
    LET cells == SelectSeq(html, LAMBDA row :
                     /\ row.table = "materials-accepted"
                     /\ row.cls = "material-name"
                     /\ Strip(row.text) # <<>>)
    IN IF cells = <<>> THEN PyList(<<>>)
       ELSE PyList([i \in 1..Len(cells) |-> PyStr(Strip(cells[i].text))])

Electronics == PyList(<<PyStr(<<"Electronics">>)>>)

\* the candidate after step 5
Overwritten(candidate, html) ==
    PyDict([k \in DOMAIN candidate.v \cup {<<"materials_category">>, <<"materials_accepted">>} |->
              IF k = <<"materials_category">> THEN Electronics
              ELSE IF k = <<"materials_accepted">> THEN ExpectedMaterials(html)
              ELSE candidate.v[k]])

Has(e, key) == <<key>> \in DOMAIN e.v
IsFacilityRecord(e) == e.t = "dict" /\ validate_structure(e).valid
HasFailureKeys(e) == Has(e, "error") /\ Has(e, "raw_output")
ErrorStartsWith(e, prefix) ==
    /\ e.v[<<"error">>].t = "str"
    /\ e.v[<<"error">>].v # <<>>
    /\ e.v[<<"error">>].v[1] = prefix

Results == 1..Len(structured_entries)

\* C1: process never raises past its boundary; when the model call raises,
\* process returns a failure whose message starts with "JSON decode error:".
C1_NeverRaises ==
    /\ pc # "crashed"
    /\ \A i \in Results :
         replies[i].raises =>
            /\ HasFailureKeys(structured_entries[i])
            /\ ErrorStartsWith(structured_entries[i], "JSON decode error: ")

\* C2: every returned value is exactly one of a FacilityRecord (passes
\* validate, no error and raw_output keys) and an ExtractionFailure (error and
\* raw_output keys), and none reads as both a valid record and a failure.
C2_ExactlyOneKind ==
    \A i \in Results :
        LET e == structured_entries[i]
        IN /\ \/ IsFacilityRecord(e) /\ ~Has(e, "error") /\ ~Has(e, "raw_output")
              \/ HasFailureKeys(e)
           /\ ~(IsFacilityRecord(e) /\ HasFailureKeys(e))

\* C3: a returned FacilityRecord has materials_category = ["Electronics"] and
\* materials_accepted = the materials of the page, whatever the model proposed,
\* and its business_name, last_update_date and street_address are those of the
\* first element of the parsed model output.
C3_MaterialsFromPage ==
    \A i \in Results :
        LET e == structured_entries[i]
            out == ParsedOutput(replies[i].text)
        IN IsFacilityRecord(e) =>
            /\ e.v[<<"materials_category">>] = Electronics
            /\ e.v[<<"materials_accepted">>] = ExpectedMaterials(raw_facilities[i])
            /\ ~replies[i].raises
            /\ HasMapping(out)
            /\ \A key \in {"business_name", "last_update_date", "street_address"} :
                 /\ Has(Candidate(out), key)
                 /\ Candidate(out).v[<<key>>].t = "str"
                 /\ Candidate(out).v[<<key>>].v = e.v[<<key>>].v

\* C3 witness: a record was returned for a page with two materials although
\* the model proposed ["Y"] for materials_accepted and ["X"] for the category
C3_Witness ==
    \E i \in Results :
        LET out == ParsedOutput(replies[i].text)
        IN /\ IsFacilityRecord(structured_entries[i])
           /\ HasMapping(out)
           /\ Has(Candidate(out), "materials_accepted")
           /\ Candidate(out).v[<<"materials_accepted">>] = PyList(<<PyStr(<<"Y">>)>>)
           /\ Has(Candidate(out), "materials_category")
           /\ structured_entries[i].v[<<"materials_accepted">>]
                  = PyList(<<PyStr(<<"Glass">>), PyStr(<<"Batteries">>)>>)

\* C7: when the candidate parsed from the model output is a mapping that fails
\* validate after the overwrite, the result is a failure whose message is
\* "Validation error: " followed by validate's message and whose raw_output is
\* the candidate as overwritten.
C7_RejectedCandidateReported ==
    \A i \in Results :
        LET out == ParsedOutput(replies[i].text)
            candidate == Overwritten(Candidate(out), raw_facilities[i])
            verdict == validate_structure(candidate)
        IN (~replies[i].raises /\ HasMapping(out) /\ ~verdict.valid)
            => structured_entries[i] =
                 PyDict((<<"error">> :> PyStr(<<"Validation error: ">> \o verdict.message))
                        @@ (<<"raw_output">> :> candidate))

\* C7 witness: a candidate without last_update_date was rejected; the failure
\* carries the materials of the page, where the model had proposed ["Y"]
C7_Witness ==
    \E i \in Results :
        LET e == structured_entries[i]
            out == ParsedOutput(replies[i].text)
        IN /\ HasMapping(out)
           /\ Has(Candidate(out), "materials_accepted")
           /\ Candidate(out).v[<<"materials_accepted">>] = PyList(<<PyStr(<<"Y">>)>>)
           /\ HasFailureKeys(e)
           /\ e.v[<<"error">>] = PyStr(<<"Validation error: ", "Missing key: ", "last_update_date">>)
           /\ e.v[<<"raw_output">>].t = "dict"
           /\ e.v[<<"raw_output">>].v[<<"materials_accepted">>] = PyList(<<PyStr(<<"Glass">>)>>)
           /\ e.v[<<"raw_output">>].v[<<"materials_category">>] = Electronics

\* the model output of page i does not parse, or has no mapping as candidate
Unparseable(i) == ~replies[i].raises /\ ~HasMapping(ParsedOutput(replies[i].text))

\* C8 as stated: when the sanitized output is not valid JSON, or parses to a
\* value without a mapping at the expected place, the result is a failure
\* whose message starts with "JSON decode error:", and whose raw_output is the
\* sanitized text handed to the parser.
C8_RawOutputIsSanitizedText ==
    \A i \in Results :
        LET e == structured_entries[i]
        IN Unparseable(i) =>
            /\ HasFailureKeys(e)
            /\ ErrorStartsWith(e, "JSON decode error: ")
            /\ ~IsFacilityRecord(e)
            /\ e.v[<<"raw_output">>] = PyStr(Sanitized(replies[i].text))

\* C8 amended: as stated, except that raw_output is the response as it stood
\* before sanitization: the stripped content of the JSON fence when the
\* response has one, the whole response otherwise.
C8_RawOutputIsUnsanitizedText ==
    \A i \in Results :
        LET e == structured_entries[i]
        IN Unparseable(i) =>
            /\ HasFailureKeys(e)
            /\ ErrorStartsWith(e, "JSON decode error: ")
            /\ ~IsFacilityRecord(e)
            /\ e.v[<<"raw_output">>] = PyStr(FenceContent(replies[i].text))

\* C8 witness: a fenced payload that the repairs change and the parser rejects
\* was reported with the payload as the model wrote it
C8_Witness ==
    \E i \in Results :
        /\ Unparseable(i)
        /\ replies[i].text = Prose \o <<NL, FenceJson, NL>> \o BrokenObject \o <<NL, Fence, NL>> \o Prose
        /\ Sanitized(replies[i].text) # BrokenObject
        /\ structured_entries[i].v[<<"raw_output">>] = PyStr(BrokenObject)
        /\ structured_entries[i].v[<<"error">>] =
               PyStr(<<"JSON decode error: ", "Expecting ':' delimiter">>)

\* C10: the fence is extracted before the text is sanitized: when the response
\* has a JSON fence, what the sanitizer gets is the content of the fenced block
\* alone, and what the parser gets is that content sanitized; without a fence
\* the whole response is sanitized.
C10_FenceBeforeSanitize ==
    /\ pc = "clean" => raw_response.v = FenceContent(replies[idx + 1].text)
    /\ pc = "parse" => /\ raw_response.v = FenceContent(replies[idx + 1].text)
                       /\ cleaned.v = clean_json_string(FenceContent(replies[idx + 1].text))

\* C10 witness: prose with a commentary marker before the fence and a block
\* after it; the parser got the array of the last block
C10_Witness ==
    /\ pc = "parse"
    /\ replies[idx + 1].text \in {
           Prose \o <<NL, "Note:", SP>> \o Prose \o <<NL, FenceJson, NL>> \o List(ValidObject) \o <<Fence>> }
    /\ cleaned.v = List(ValidObject)

\* C6: main handles the pages one at a time and in order and reaches the end
\* of the list: the run is never aborted, each finished page has its result,
\* and what is written has one result for each page.
C6_EveryPageYieldsAResult ==
    /\ pc # "crashed"
    /\ Len(structured_entries) = idx
    /\ pc = "done" => saved = PyList(structured_entries) /\ idx = Len(raw_facilities)

=============================================================================
